---- MODULE Spec2Model ----
(***************************************************************************)
(* Model of the scripts of how_events_move_markets:                        *)
(*   scripts/analyze_event_spikes_and_dips.py  (load, detect, attribute,   *)
(*                                              aggregate)                 *)
(*   scripts/events_to_currency_ols.py         (country extraction,        *)
(*                                              event features)            *)
(*   scripts/historical_events.py,                                         *)
(*   scripts/update_historical_events.py       (monthly event files)       *)
(*   scripts/historical_currencies.py,                                     *)
(*   scripts/update_historical_currencies.py   (incremental rate updates)  *)
(*   scripts/make_visuals.py                   (regression panel, labels)  *)
(*                                                                         *)
(* Dates are day numbers (d - 1 day is d - 1).  Percentage changes are     *)
(* integers; mean, standard deviation and z-score are compared exactly by  *)
(* cross-multiplication, so no rounding enters the model.  A text value is *)
(* a sequence of tokens: "," is the comma, " " is a whitespace character,  *)
(* any other token stands for a run of non-blank, non-comma characters.    *)
(***************************************************************************)
EXTENDS Integers, Sequences, FiniteSets, TLC

VARIABLES
    pc,                \* position of the running function
    df_currency,       \* rate table: [index, data]
    raw_events,        \* the event files found on disk, as read by read_parquet
    df_events,         \* loaded event table (sequence of rows)
    col_i,             \* detect_spikes_and_dips: index of the next column
    results,           \* detect_spikes_and_dips: the anomaly rows so far
    row_i,             \* main: index of the next anomaly row
    analysis_results,  \* main: attribution rows so far
    stats,             \* main: aggregate share table
    error,             \* exception that ended the run, or "none"
    top_date,          \* get_top_events: argument date
    top_country,       \* get_top_events: argument country
    top_events,        \* get_top_events: returned ordered dict
    ols_events,        \* build_event_features: argument events_df
    features,          \* build_event_features: the (Date, Country) groups
    monthly_file,      \* save_monthly: per month, the parquet file [exists, rows]
    saved_ids,         \* history: per month, the GlobalEventIDs handed to save_monthly
    rate_script,       \* which rate updater runs: its file name
    rate_store,        \* the stored rate table (parquet or Excel): sequence of rows
    today,             \* date.today() of the latest run
    start_date,        \* the latest run: first date asked of the rate service
    new_data,          \* the latest run: the fetched rows with their % change
    rate_runs,         \* number of updater runs so far
    ols_pc,            \* build_ols_event_treemap: position
    event_counts,      \* daily counts per COUNTTYPE: date -> category -> count
    currencies_df,     \* the rate table handed in: [suffix, data: date -> currency -> %]
    panel,             \* the aligned rows: [date, counts, pct], ascending
    usd_strength,      \* per panel row, the response as a fraction [num, den]
    X,                 \* the category columns kept for the fit, in column order
    coeff_df,          \* the label rows [COUNTTYPE, coef, Impact]
    ols_result,        \* what the function returned: "pending", "None", "dict"
    mt_pc,             \* prepare_model_table: position
    daily,             \* the dates that have events of the currency's countries
    cur_prices,        \* the currency's % change by date: date -> number or NaN
    model_tables,      \* model_tables.get(cur): [built, rows]
    py_pc,             \* process_year: position
    py_month,          \* process_year: index of the month in sorted order
    py_url,            \* process_year: index of the zip URL within the month
    attempt,           \* process_year: the retry loop's variable
    all_dfs,           \* process_year: the frames of the month so far
    attempts_made,     \* history, this run: month -> URL -> download attempts
    frames_from,       \* history, this run: month -> URL -> frames put in all_dfs
    file_writes,       \* history, all runs: month -> [n, zips] writes by process_year
    downloads_after    \* history, this run: attempts made on a URL after its success

mainVars == <<pc, df_currency, raw_events, df_events, col_i, results, row_i,
              analysis_results, stats, error, top_date, top_country,
              top_events, ols_events, features>>

eventFileVars == <<monthly_file, saved_ids>>

rateVars == <<rate_script, rate_store, today, start_date, new_data, rate_runs>>

olsVars == <<ols_pc, event_counts, currencies_df, panel, usd_strength, X,
            coeff_df, ols_result>>

modelTableVars == <<mt_pc, daily, cur_prices, model_tables>>

yearVars == <<py_pc, py_month, py_url, attempt, all_dfs,
             attempts_made, frames_from, file_writes, downloads_after>>

scriptVars == <<eventFileVars, rateVars, olsVars, modelTableVars, yearVars>>

vars == <<mainVars, scriptVars>>

----------------------------------------------------------------------------
(* Bounds *)

NumDates == 9        \* dates of the rate table are 1..NumDates
ExhaustDates == 6    \* dates on which every combination of cells is tried
MaxGeoLen == 4       \* longest geography text, in tokens
MaxTopRows == 4      \* most event rows handed to get_top_events
MaxRows == 2         \* most rows of one event file read by main
MaxBatch == 2        \* most rows of one batch handed to save_monthly
MaxDay == 3          \* the rate updaters run on days 1..MaxDay
MaxRuns == 2         \* most runs of a rate updater
MaxPanelDay == 3     \* dates of the event counts and of the rate table are 1..MaxPanelDay
MaxModelDay == 4     \* dates seen by prepare_model_table are 1..MaxModelDay
MaxUrls == 2         \* zip URLs of one month in the index
MaxShareRows == 3    \* most attribution rows handed to the share table

(* Program constants *)

Z_THRESHOLD == 2
DEFAULT_TOP_N == 3
max_retries == 3

Dates == 1..NumDates
Vals == {0, 1}
Columns == <<"EUR", "JPY">>

----------------------------------------------------------------------------
(* Generic helpers *)

RECURSIVE SumOver(_, _)
SumOver(f, S) ==
    IF S = {} THEN 0
    ELSE LET x == CHOOSE y \in S : TRUE IN f[x] + SumOver(f, S \ {x})

\* The elements of a set of integers 1..hi, ascending, as a sequence.
Ascending(S, hi) == SelectSeq([i \in 1..hi |-> i], LAMBDA i : i \in S)

Range(s) == {s[i] : i \in DOMAIN s}

----------------------------------------------------------------------------
(* Text: str.strip, str.split(",")[-1], missing values *)

None == [na |-> TRUE, s |-> <<>>]        \* None / NaN: pd.isna is true
Str(s) == [na |-> FALSE, s |-> s]

IsSpace(ch) == ch = " "

RECURSIVE LStrip(_)
LStrip(s) == IF s # <<>> /\ IsSpace(Head(s)) THEN LStrip(Tail(s)) ELSE s

RECURSIVE RStrip(_)
RStrip(s) ==
    IF s # <<>> /\ IsSpace(s[Len(s)]) THEN RStrip(SubSeq(s, 1, Len(s) - 1))
    ELSE s

Strip(s) == RStrip(LStrip(s))

HasComma(s) == \E i \in DOMAIN s : s[i] = ","

\* s.split(",")[-1]: the text after the last comma, the whole text if none.
SplitLast(s) ==
    LET commas == {i \in DOMAIN s : s[i] = ","}
        last == IF commas = {} THEN 0
                ELSE CHOOSE i \in commas : \A j \in commas : j <= i
    IN SubSeq(s, last + 1, Len(s))

----------------------------------------------------------------------------
(* Rate tables.  The rows of a table are numbered 1, 2, ... in file order   *)
(* and `date` gives the index label of each row; a label may stand on more *)
(* than one row.  A column is a function from the rows that hold a value   *)
(* to that value: a row outside its domain is a missing (NaN) cell, so the *)
(* column itself is Series.dropna().                                       *)

\* Every column with values on the first ExhaustDates dates only.
FullColumns == UNION {[S -> Vals] : S \in SUBSET (1..ExhaustDates)}

\* A cell: no value, or one value.
Cells == {{}} \cup {{v} : v \in Vals}

\* The column holding cell x on date d0 and cell base on every other date.
ColumnOf(base, d0, x) ==
    LET cell(d) == IF d = d0 THEN x ELSE base
    IN [d \in {e \in Dates : cell(e) # {}} |-> CHOOSE v \in cell(d) : TRUE]

\* Columns in which all dates but at most the first or the last agree.
NearConstant ==
    {ColumnOf(base, d0, x) : base \in Cells, d0 \in {1, NumDates}, x \in Cells}

\* A column with mean 1 and sample standard deviation 1/2: its first value
\* lies exactly Z_THRESHOLD deviations below the mean, its last value exactly
\* Z_THRESHOLD deviations above.
BoundaryColumn == [d \in 1..9 |-> <<0, 1, 1, 1, 1, 1, 1, 1, 2>>[d]]

SmallColumns == NearConstant \cup {BoundaryColumn}

\* No value, a single value, all values equal.
FlatColumns == {c \in NearConstant :
                   \A d, e \in DOMAIN c : c[d] = c[e]}

\* No value, one value on the first date, the value 0 on every date.
DegenerateColumns ==
    {c \in FlatColumns : DOMAIN c \in {{}, {1}, Dates} /\ \A d \in DOMAIN c : c[d] = 0}

\* A table with one row per date, in date order.
Table(eur, jpy) ==
    [index |-> Dates,
     date |-> [p \in Dates |-> p],
     data |-> [c \in Range(Columns) |-> IF c = "EUR" THEN eur ELSE jpy]]

\* The values of BoundaryColumn with the lowest and the highest on the last
\* two rows.
ResentColumn == [d \in 1..9 |-> <<1, 1, 1, 1, 1, 1, 1, 0, 2>>[d]]

\* The index of a stored table to which a bar of its last date was appended
\* again: rows 8 and 9 both carry date 8.  read_excel keeps both rows.
ResentDate == [p \in Dates |-> IF p = 9 THEN 8 ELSE p]

ResentTable(eur, jpy) == [Table(eur, jpy) EXCEPT !.date = ResentDate]

\* The tables handed to detect_spikes_and_dips.
DetectTables ==
    {Table(p[1], p[2]) :
        p \in (FullColumns \X DegenerateColumns)
              \cup (DegenerateColumns \X FullColumns)
              \cup (SmallColumns \X SmallColumns)}
    \cup {ResentTable(p[1], p[2]) :
             p \in ({ResentColumn, BoundaryColumn} \X DegenerateColumns)
                   \cup (DegenerateColumns \X {ResentColumn, BoundaryColumn})}

\* The tables main reads.
MainTables ==
    {Table(p[1], p[2]) : p \in SmallColumns \X DegenerateColumns}

EmptyTable ==
    [index |-> {}, date |-> <<>>, data |-> [c \in Range(Columns) |-> <<>>]]

\* The Excel file of the rates does not exist: there is no table to read.
NoExcelFile ==
    [index |-> {}, date |-> <<>>, data |-> [c \in Range(Columns) |-> <<>>],
     missing |-> TRUE]

\* DataFrame.empty
FrameEmpty(df) == df.index = {}

----------------------------------------------------------------------------
(* detect_spikes_and_dips: mean, std and z-score of one column.            *)
(* With n values v, sum S: v - mean = (n*v - S)/n and                      *)
(* std^2 = sum((v - mean)^2)/(n - 1) (pandas Series.std, ddof = 1).        *)

Count(series) == Cardinality(DOMAIN series)

Total(series) == SumOver(series, DOMAIN series)

\* n * (series[d] - mean)
Dev(series, d) == Count(series) * series[d] - Total(series)

\* n^2 * sum of squared deviations from the mean
SumSqDev(series) ==
    SumOver([d \in DOMAIN series |-> Dev(series, d) * Dev(series, d)],
            DOMAIN series)

DdofPopulation(series) == Count(series)

\* The divisor of the variance: n - ddof with ddof = 1.
Ddof(series) == Count(series) - 1

\* Series.std() is NaN for fewer than two values.
StdIsNaN(series) == Ddof(series) <= 0

StdIsZero(series) == ~StdIsNaN(series) /\ SumSqDev(series) = 0

\* series_z[d] >= k, for k >= 0.  The z-score is NaN when std is NaN or 0
\* (0/0), and a NaN compares false.
ZGe(series, d, k) ==
    /\ ~StdIsNaN(series)
    /\ ~StdIsZero(series)
    /\ Dev(series, d) >= 0
    /\ Dev(series, d) * Dev(series, d) * Ddof(series) >= k * k * SumSqDev(series)

\* series_z[d] <= -k
ZLe(series, d, k) ==
    /\ ~StdIsNaN(series)
    /\ ~StdIsZero(series)
    /\ Dev(series, d) <= 0
    /\ Dev(series, d) * Dev(series, d) * Ddof(series) >= k * k * SumSqDev(series)

AnomalyRow(date, col, type) == [DATE |-> date, CURRENCY |-> col, TYPE |-> type]

\* One iteration of the column loop: the rows it appends to results, one
\* for each row of the table whose z-score passes the threshold, labelled
\* with the index label of that row.
ColumnRows(df, col) ==
    LET series == df.data[col]
        hi == NumDates
        spikes == Ascending({d \in DOMAIN series : ZGe(series, d, Z_THRESHOLD)}, hi)
        dips == Ascending({d \in DOMAIN series : ZLe(series, d, Z_THRESHOLD)}, hi)
    IN IF col = "DATE" THEN <<>>
       ELSE IF DOMAIN series = {} THEN <<>>
       ELSE IF StdIsZero(series) THEN <<>>
       ELSE [i \in 1..Len(spikes) |-> AnomalyRow(df.date[spikes[i]], col, "SPIKE")]
            \o [i \in 1..Len(dips) |-> AnomalyRow(df.date[dips[i]], col, "DIP")]

AfterColumnBreak(df, i) ==
    LET series == df.data[Columns[i]]
    IN IF DOMAIN series = {} \/ StdIsZero(series) THEN Len(Columns) + 1
       ELSE i + 1

\* Loop control: `continue` and the end of the body both go on to the next
\* column.
AfterColumn(df, i) == i + 1

----------------------------------------------------------------------------
(* Event files and load_events_data *)

France == Str(<<"France">>)
Japan == Str(<<"Japan">>)

\* A raw DATE passes str(x).isdigit() and parses as %Y%m%d, or does not.
RawDate(d) == [ok |-> TRUE, day |-> d]
BadDate == [ok |-> FALSE, day |-> 0]

\* The COUNTRY lambda of load_events_data.
LoadCountry(x) == IF x.na THEN None ELSE Str(Strip(SplitLast(x.s)))

\* The outcome of reading event files: the rows read, or raised.
Loaded(rows) == [raised |-> FALSE, rows |-> rows]
RaisedKeyError == [raised |-> TRUE, rows |-> <<>>]

\* One file with a DATE column: rows with a bad DATE go, COUNTRY is added,
\* every other row stays.  For a file without any row the mask of line 48,
\* Series.apply on an empty Series, is an empty Series of the column's own
\* dtype and not a boolean one: df[mask] then selects no column instead of
\* no row, and df["DATE"] on line 51 raises KeyError.
LoadFile(f) ==
    IF f.rows = <<>> THEN RaisedKeyError
    ELSE LET good == SelectSeq(f.rows, LAMBDA r : r.DATE.ok)
         IN Loaded([i \in 1..Len(good) |->
               [DATE |-> good[i].DATE.day,
                COUNTRY |-> IF f.has_geo
                            THEN LoadCountry(good[i].GEO_COUNTRYCODE)
                            ELSE None,
                COUNTTYPE |-> good[i].COUNTTYPE]])

\* The file loop: a file without DATE column is skipped, the frames of the
\* others are concatenated in order; the first file that raises ends it.
RECURSIVE ConcatFiles(_)
ConcatFiles(files) ==
    IF files = <<>> THEN Loaded(<<>>)
    ELSE IF ~Head(files).has_date THEN ConcatFiles(Tail(files))
    ELSE LET h == LoadFile(Head(files))
             t == ConcatFiles(Tail(files))
         IN IF h.raised \/ t.raised THEN RaisedKeyError
            ELSE Loaded(h.rows \o t.rows)

\* load_events_data: the concatenation of the usable files, an empty frame
\* when there is none; the KeyError of a file without rows is not caught.
load_events_data(files) == ConcatFiles(files)

----------------------------------------------------------------------------
(* get_top_events *)

\* Series.value_counts(): the categories with their counts, highest count
\* first, equal counts in order of first appearance.
ValueCounts(cats) ==
    LET keys == Range(cats)
        cnt(k) == Cardinality({i \in DOMAIN cats : cats[i] = k})
        first(k) == CHOOSE i \in DOMAIN cats :
                        cats[i] = k /\ \A j \in 1..(i - 1) : cats[j] # k
        rank(k) == 1 + Cardinality({j \in keys :
                        \/ cnt(j) > cnt(k)
                        \/ cnt(j) = cnt(k) /\ first(j) < first(k)})
    IN [r \in 1..Cardinality(keys) |->
           LET k == CHOOSE j \in keys : rank(j) = r
           IN [key |-> k, count |-> cnt(k)]]

Head_(s, n) == SubSeq(s, 1, IF n < Len(s) THEN n ELSE Len(s))

get_top_events(events_df, date, country, top_n) ==
    LET prev_day == date - 1
        df_filtered == SelectSeq(events_df,
                          LAMBDA r : r.DATE = prev_day /\ r.COUNTRY = country)
        counttype == [i \in 1..Len(df_filtered) |-> df_filtered[i].COUNTTYPE]
    IN Head_(ValueCounts(counttype), top_n)

----------------------------------------------------------------------------
(* events_to_currency_ols.py: country extraction and event features *)

extract_country_from_geo(col_value) ==
    IF col_value.na THEN None
    ELSE LET s == Strip(col_value.s)
         IN IF s = <<>> THEN None
            ELSE IF HasComma(s) THEN Str(Strip(SplitLast(s)))
            ELSE Str(s)

\* Lines 102-108: Date and Country columns, rows without either dropped,
\* Country stripped.
CleanEvents(events_df) ==
    LET withCountry == [i \in 1..Len(events_df) |->
            [Date |-> events_df[i].Date,
             Country |-> extract_country_from_geo(events_df[i].ActionGeo_Country),
             EventCode |-> events_df[i].EventCode]]
        kept == SelectSeq(withCountry, LAMBDA r : r.Date.ok /\ ~r.Country.na)
    IN [i \in 1..Len(kept) |->
           [Date |-> kept[i].Date.day,
            Country |-> Str(Strip(kept[i].Country.s)),
            EventCode |-> kept[i].EventCode]]

\* One feature row per (Date, Country) group: its size, its number of
\* distinct event codes and the count of each of the top codes (all codes of
\* a table with at most top_n_codes codes).
build_event_features(events_df) ==
    LET df == CleanEvents(events_df)
        keys == {<<df[i].Date, df[i].Country>> : i \in DOMAIN df}
        codes == {df[i].EventCode : i \in DOMAIN df}
        group(k) == {i \in DOMAIN df : <<df[i].Date, df[i].Country>> = k}
    IN {[Date |-> k[1], Country |-> k[2],
         total_events |-> Cardinality(group(k)),
         unique_event_codes |-> Cardinality({df[i].EventCode : i \in group(k)}),
         evt |-> [c \in codes |->
                    Cardinality({i \in group(k) : df[i].EventCode = c})]] :
        k \in keys}

\* Currency -> countries it is used in, cut down to the countries of the model.
CURRENCY_TO_COUNTRIES ==
    [c \in {"EUR", "JPY"} |->
        IF c = "EUR" THEN {France, Str(<<"Germany">>)} ELSE {Japan}]

----------------------------------------------------------------------------
(* main of analyze_event_spikes_and_dips.py *)

currency_country_map ==
    [c \in {"EUR", "JPY"} |-> IF c = "EUR" THEN France ELSE Japan]

\* The rows one anomaly row adds to analysis_results (lines 121-145).
AttributionRows(row, events_df) ==
    LET date == row["Date"]
        cur == row["Currency"]
        top == IF cur \in DOMAIN currency_country_map
               THEN get_top_events(events_df, date, currency_country_map[cur],
                                   DEFAULT_TOP_N)
               ELSE <<>>
    IN [i \in 1..Len(top) |->
           [Date |-> date, Currency |-> cur, SpikeDip |-> row["Type"],
            Event |-> top[i].key, Count |-> top[i].count]]

\* round(100 * occ / total, 2) in hundredths of a percent, halves to even.
Round2Pct(occ, total) ==
    LET q == (10000 * occ) \div total
        r == (10000 * occ) % total
    IN IF 2 * r > total \/ (2 * r = total /\ q % 2 = 1) THEN q + 1 ELSE q

\* The share taken of the rows of both directions together.
ShareTableOverAll(df_analysis) ==
    LET rowsOf(sd, ev) == {i \in DOMAIN df_analysis :
                              df_analysis[i].SpikeDip = sd /\ df_analysis[i].Event = ev}
    IN {[SpikeDip |-> df_analysis[i].SpikeDip, Event |-> df_analysis[i].Event,
         Occurrences |-> Cardinality(rowsOf(df_analysis[i].SpikeDip, df_analysis[i].Event)),
         Percentage |-> Round2Pct(
             Cardinality(rowsOf(df_analysis[i].SpikeDip, df_analysis[i].Event)),
             Len(df_analysis))] :
        i \in DOMAIN df_analysis}

\* Lines 153-155: rows per (SpikeDip, Event) and their share of the rows of
\* the same SpikeDip.
ShareTable(df_analysis) ==
    LET rowsOf(sd, ev) == {i \in DOMAIN df_analysis :
                              df_analysis[i].SpikeDip = sd /\ df_analysis[i].Event = ev}
        rowsOfType(sd) == {i \in DOMAIN df_analysis : df_analysis[i].SpikeDip = sd}
    IN {[SpikeDip |-> df_analysis[i].SpikeDip, Event |-> df_analysis[i].Event,
         Occurrences |-> Cardinality(rowsOf(df_analysis[i].SpikeDip, df_analysis[i].Event)),
         Percentage |-> Round2Pct(
             Cardinality(rowsOf(df_analysis[i].SpikeDip, df_analysis[i].Event)),
             Cardinality(rowsOfType(df_analysis[i].SpikeDip)))] :
        i \in DOMAIN df_analysis}

----------------------------------------------------------------------------
(* Inputs *)

SeqsUpTo(S, n) == UNION {[1..k -> S] : k \in 0..n}

Blank == Str(<<" ">>)
ParisFrance == Str(<<"Paris", ",", " ", "France">>)
Germany == Str(<<"Germany">>)

MainRawRows ==
    [DATE : {RawDate(NumDates - 1), BadDate},
     GEO_COUNTRYCODE : {France, ParisFrance, Germany, Blank},
     COUNTTYPE : {"PROTEST"}]

MainFiles ==
    {[has_date |-> TRUE, has_geo |-> TRUE, rows |-> r] :
        r \in SeqsUpTo(MainRawRows, MaxRows)}
    \cup {[has_date |-> FALSE, has_geo |-> TRUE, rows |-> <<>>],
          [has_date |-> TRUE, has_geo |-> FALSE,
           rows |-> <<[DATE |-> RawDate(NumDates - 1), GEO_COUNTRYCODE |-> None,
                       COUNTTYPE |-> "PROTEST"]>>]}

MainEventFiles == {<<>>} \cup {<<f>> : f \in MainFiles}

\* The attribution rows handed to the aggregation of lines 153-155.
AttributionTables ==
    SeqsUpTo([Date : {NumDates}, Currency : {"EUR"},
              SpikeDip : {"SPIKE", "DIP"}, Event : {"A", "B", "C"},
              Count : {1}],
             MaxShareRows)

\* The category codes, ascending.
CategoryOrder == <<"A", "B", "C", "D">>

Categories == Range(CategoryOrder)

TopRows ==
    {[DATE |-> k[1], COUNTRY |-> k[2], COUNTTYPE |-> c] :
        k \in {<<1, France>>, <<1, Japan>>, <<2, France>>}, c \in Categories}

TopEventTables == SeqsUpTo(TopRows, MaxTopRows)

GeoTokens == {"France", "Alaska", ",", " "}

GeoTexts == {None} \cup {Str(s) : s \in SeqsUpTo(GeoTokens, MaxGeoLen)}

----------------------------------------------------------------------------
(* Monthly event files: historical_events.py, update_historical_events.py *)

\* DataFrame.drop_duplicates(subset=subset) with the default keep="first":
\* a row stays when no earlier row equals it on the columns of subset; the
\* order is kept.
DropDuplicates(rows, subset) ==
    LET first(i) == \A j \in 1..(i - 1) : \E f \in subset : rows[j][f] # rows[i][f]
        kept == SelectSeq([i \in 1..Len(rows) |-> i], first)
    IN [k \in 1..Len(kept) |-> rows[kept[k]]]

GlobalEventID(row) == row.GlobalEventID

\* The month's parquet file does not exist.
NoFile == [exists |-> FALSE, rows |-> <<>>]

\* save_monthly(df, year, month) for one (year, month): the file after the
\* call.  The two scripts carry the same function.
save_monthly(file, df) ==
    [exists |-> TRUE,
     rows |-> IF file.exists
              THEN DropDuplicates(file.rows \o df, {"GlobalEventID"})
              ELSE df]

\* The months of one year that files are written for.
Months == {"01", "02"}

EventIds == {1, 2}

\* A downloaded event row: its identifier and the rest of its fields.
EventRows == [GlobalEventID : EventIds, EventCode : {"14", "19"}]

\* The frames the callers hand over; one without rows is among them (a
\* zip whose rows were all dropped).
Batches == SeqsUpTo(EventRows, MaxBatch)

----------------------------------------------------------------------------
(* Rate updaters: historical_currencies.py, update_historical_currencies.py *)
(* One currency, EUR.  A stored or fetched row is [Date, EUR, EUR_Chg];    *)
(* EUR_Chg is in tenths of a percent (round(3) * 100 leaves one decimal),  *)
(* or NaN.                                                                 *)

NaN == [nan |-> TRUE, v |-> 0]          \* a missing % change
Num(v) == [nan |-> FALSE, v |-> v]

Prices == {100, 101}

\* round(x) of the rational n/d, d > 0.  No value of the model is a tie.
RoundDiv(n, d) == (2 * n + d) \div (2 * d)

\* Series.pct_change().round(3) * 100 at position i of a frame, in tenths
\* of a percent: NaN on the first row.
PctChange(rows, i) ==
    IF i = 1 THEN NaN
    ELSE Num(RoundDiv(1000 * (rows[i].EUR - rows[i - 1].EUR), rows[i - 1].EUR))

\* add_pct_change / lines 48-50 of fetch_currency_data: the % change
\* column is computed within the fetched frame.
add_pct_change(rows) ==
    [i \in 1..Len(rows) |->
        [Date |-> rows[i].Date, EUR |-> rows[i].EUR,
         EUR_Chg |-> PctChange(rows, i)]]

\* What yf.download sends for start..end: closing prices on some dates,
\* ascending.  Its daily bars are stamped in the market's time zone, so a
\* bar of the day before start can be among them.
Downloads(start, end) ==
    LET lo == IF start > 1 THEN start - 1 ELSE 1
    IN UNION {
         { [i \in 1..Len(Ascending(F, MaxDay)) |->
               [Date |-> Ascending(F, MaxDay)[i],
                EUR |-> price[Ascending(F, MaxDay)[i]]]] :
             price \in [F -> Prices] } :
         F \in SUBSET (lo..end) }

Date(row) == row.Date

\* The columns of the Excel frame; Date is its index.
ValueColumns == {"EUR", "EUR_Chg"}

DatesOf(rows) == {Date(r) : r \in Range(rows)}

MaxDate(rows) == CHOOSE d \in DatesOf(rows) : \A e \in DatesOf(rows) : e <= d

\* DataFrame.sort_values("Date") of a frame with one row per date.
SortValuesDate(rows) ==
    LET ds == Ascending(DatesOf(rows), MaxDay)
    IN [k \in 1..Len(ds) |-> CHOOSE r \in Range(rows) : Date(r) = ds[k]]

\* historical_currencies.update_currency_data, line 83.
MergeParquet(existing, new) ==
    SortValuesDate(DropDuplicates(existing \o new, {"Date"}))

\* update_historical_currencies.main, lines 77-80: drop_duplicates() with
\* no subset compares the columns of the rows, not the Date index.
MergeExcel(existing_df, new) ==
    IF existing_df # <<>>
    THEN DropDuplicates(existing_df \o new, ValueColumns)
    ELSE new

\* The first date a run asks for: the day after the last stored date, or
\* the first day when nothing is stored.
StartDate(existing) == IF existing # <<>> THEN MaxDate(existing) + 1 ELSE 1

----------------------------------------------------------------------------
(* Regression panel and labels: make_visuals.py, build_ols_event_treemap *)
(* Percentage changes are integers or NaN; a mean is kept as a fraction.  *)
(* Coefficients are integers in units of 1e-7.                            *)

PanelDays == 1..MaxPanelDay

\* The pivot's columns, in column (alphabetical) order.
CountTypes == <<"KILL", "PROTEST">>

Currencies == {"EUR", "JPY"}

\* The pivot of aggregate_event_counts: a row for each date that has an
\* event, a count for each category, 0 where the date has none of it.
EventCountTables ==
    UNION { { t \in [E -> [Range(CountTypes) -> {0, 1}]] :
                \A d \in E : \E c \in Range(CountTypes) : t[d][c] > 0 } :
            E \in SUBSET PanelDays }

\* The values a currency's % change column takes.
PctValues(cur) == IF cur = "EUR" THEN {NaN, Num(1)} ELSE {NaN, Num(3)}

\* The rate tables: the % change columns are named <currency><suffix>.
CurrencyTables ==
    UNION { { [suffix |-> sfx, data |-> t] :
                sfx \in {"_pctchg", "_%Chg"},
                t \in [C -> {r \in [Currencies -> {NaN, Num(1), Num(3)}] :
                                \A cur \in Currencies : r[cur] \in PctValues(cur)}] } :
            C \in SUBSET PanelDays }

\* Line 93: the currencies whose column name ends with "_pctchg".
pct_cols(df) == IF df.suffix = "_pctchg" THEN Currencies ELSE {}

\* The common dates without the earliest of them.
common_idxAfterFirst(counts, df) ==
    {d \in (DOMAIN counts) \cap (DOMAIN df.data) :
        \E e \in (DOMAIN counts) \cap (DOMAIN df.data) : e < d}

\* Line 104: Index.intersection.
common_idx(counts, df) == (DOMAIN counts) \cap (DOMAIN df.data)

\* fillna(0) alone: a missing value becomes 0.
FillZero(df, idx, cur, i) ==
    IF ~df.data[idx[i]][cur].nan THEN df.data[idx[i]][cur].v ELSE 0

\* Line 113: fillna(method="ffill").fillna(0) of one currency's column
\* after reindex(common_idx); idx is common_idx ascending, i a position.
RECURSIVE FillForward(_, _, _, _)
FillForward(df, idx, cur, i) ==
    IF ~df.data[idx[i]][cur].nan THEN df.data[idx[i]][cur].v
    ELSE IF i = 1 THEN 0
    ELSE FillForward(df, idx, cur, i - 1)

\* Lines 112-113: the two frames reindexed to the common dates.
Align(counts, df) ==
    LET idx == Ascending(common_idx(counts, df), MaxPanelDay)
    IN [i \in 1..Len(idx) |->
           [date |-> idx[i],
            counts |-> counts[idx[i]],
            pct |-> [cur \in pct_cols(df) |-> FillForward(df, idx, cur, i)]]]

\* Lines 117-120: minus the mean over the % change columns of a row.
UsdStrength(row) ==
    [num |-> 0 - SumOver(row.pct, DOMAIN row.pct),
     den |-> Cardinality(DOMAIN row.pct)]

\* X.sum(axis=0) of one category column.
ColumnSum(rows, c) ==
    SumOver([i \in DOMAIN rows |-> rows[i].counts[c]], DOMAIN rows)

\* The columns whose counts vary over the rows.
\* Line 126: the columns whose counts sum to more than 0.
KeepColumn(rows, c) == ColumnSum(rows, c) > 0

NonZeroColumns(rows) == SelectSeq(CountTypes, LAMBDA c : KeepColumn(rows, c))

\* A column that holds one value, not 0, on every row (np.ptp == 0).
IsNonZeroConstant(rows, c) ==
    /\ \A i, j \in DOMAIN rows : rows[i].counts[c] = rows[j].counts[c]
    /\ \A i \in DOMAIN rows : rows[i].counts[c] # 0

\* Line 134: sm.add_constant(X) puts a column "const" first, unless X
\* already holds a non-zero constant column (has_constant="skip").
add_constant(rows, cols) ==
    IF \E c \in Range(cols) : IsNonZeroConstant(rows, c)
    THEN cols
    ELSE <<"const">> \o cols

\* The parameters with the intercept left in.
DropNothing(cols) == cols

\* Line 137: params.drop("const", errors="ignore").
DropConst(cols) == SelectSeq(cols, LAMBDA c : c # "const")

\* The coefficients a fit can give, in units of 1e-7.
Coefs == {-20, 0, 5}

\* Line 146.
Impact(x) == IF x > 0 THEN "Weaken" ELSE IF x < 0 THEN "Strengthen" ELSE "Neutral"

\* Lines 137-146: the label rows of the fitted parameters.
CoeffRows(params, cols) ==
    LET kept == DropConst(cols)
    IN [i \in 1..Len(kept) |->
           [COUNTTYPE |-> kept[i], coef |-> params[kept[i]],
            Impact |-> Impact(params[kept[i]])]]

----------------------------------------------------------------------------
(* Model tables: events_to_currency_ols.py, prepare_model_table *)
(* One currency; the event features of a date do not enter the target.    *)

ModelDays == 1..MaxModelDay

\* The index of `daily`: the dates with an event of a mapped country.
DailyIndexes == SUBSET ModelDays

\* The % change column of the rate table: a date of the table holds a
\* number or NaN.
PriceTables ==
    UNION { [C -> {NaN, Num(1), Num(2)}] : C \in SUBSET ModelDays }

\* The currency has no entry in model_tables.
Skipped == [built |-> FALSE, rows |-> <<>>]

\* Line 170: daily.join(cur_prices, how="inner"), ascending by date.
InnerJoin(idx, prices) ==
    LET ds == Ascending(idx \cap DOMAIN prices, MaxModelDay)
    IN [i \in 1..Len(ds) |-> [Date |-> ds[i], pctchg |-> prices[ds[i]]]]

\* Line 176: Series.shift(-1), the value of the following row, NaN on the
\* last row.
ShiftBack(rows, i) == IF i < Len(rows) THEN rows[i + 1].pctchg ELSE NaN

\* Lines 176-178: the target column, then dropna on it.
WithTarget(rows) ==
    SelectSeq([i \in 1..Len(rows) |->
                  [Date |-> rows[i].Date, pctchg |-> rows[i].pctchg,
                   target_next_pctchg |-> ShiftBack(rows, i)]],
              LAMBDA r : ~r.target_next_pctchg.nan)

----------------------------------------------------------------------------
(* update_historical_events.py, process_year *)

\* sorted(month_to_files.keys())
SortedMonths == <<"01", "02">>

\* month_to_files[month]: the zip URLs of a month, by position.
Urls == 1..MaxUrls

\* What a successful download leaves after the India filter and dropna.
ZipFrames ==
    {<<>>,
     <<[GlobalEventID |-> 1, EventCode |-> "14"],
       [GlobalEventID |-> 2, EventCode |-> "19"]>>}

\* pd.concat(all_dfs, ignore_index=True)
RECURSIVE Concat(_)
Concat(dfs) == IF dfs = <<>> THEN <<>> ELSE Head(dfs) \o Concat(Tail(dfs))

\* Line 126: `break` leaves the retry loop, the next URL follows.
AfterSuccess(url, att) == [url |-> url + 1, attempt |-> 0]

\* Lines 117, 127-130: a failed attempt is followed by the next one, the
\* last one by the next URL.
AfterFailure(url, att) ==
    IF att + 1 >= max_retries
    THEN [url |-> url + 1, attempt |-> 0]
    ELSE [url |-> url, attempt |-> att + 1]

\* No month is ever skipped.
SkipNever(file) == FALSE

\* Line 104: os.path.exists(monthly_path).
SkipMonth(file) == file.exists

NoAttempts == [m \in Range(SortedMonths) |-> [u \in Urls |-> 0]]

----------------------------------------------------------------------------
(* Initial states *)

Idle ==
    /\ col_i = 1
    /\ results = <<>>
    /\ row_i = 1
    /\ analysis_results = <<>>
    /\ stats = {}
    /\ error = "none"
    /\ top_events = <<>>
    /\ features = {}

EventFilesIdle ==
    /\ monthly_file = [m \in Months |-> NoFile]
    /\ saved_ids = [m \in Months |-> {}]

RatesIdle ==
    /\ rate_script = "none"
    /\ rate_store = <<>>
    /\ today = 1
    /\ start_date = 1
    /\ new_data = <<>>
    /\ rate_runs = 0

OlsIdle ==
    /\ ols_pc = "idle"
    /\ event_counts = <<>>
    /\ currencies_df = [suffix |-> "_pctchg", data |-> <<>>]
    /\ panel = <<>>
    /\ usd_strength = <<>>
    /\ X = <<>>
    /\ coeff_df = <<>>
    /\ ols_result = "pending"

ModelTableIdle ==
    /\ mt_pc = "idle"
    /\ daily = {}
    /\ cur_prices = <<>>
    /\ model_tables = Skipped

YearIdle ==
    /\ py_pc = "idle"
    /\ py_month = 1
    /\ py_url = 1
    /\ attempt = 0
    /\ all_dfs = <<>>
    /\ attempts_made = NoAttempts
    /\ frames_from = NoAttempts
    /\ file_writes = [m \in Range(SortedMonths) |-> [n |-> 0, zips |-> 0]]
    /\ downloads_after = 0

ScriptsIdle ==
    EventFilesIdle /\ RatesIdle /\ OlsIdle /\ ModelTableIdle /\ YearIdle

\* None of the functions of the analysis scripts is running.
MainIdle ==
    /\ pc = "idle"
    /\ df_currency = EmptyTable
    /\ raw_events = <<>>
    /\ df_events = <<>>
    /\ top_date = 0
    /\ top_country = None
    /\ ols_events = <<>>
    /\ Idle

\* main() is about to run on the stored rate table and event files.
Init ==
    /\ pc = "main"
    /\ df_currency \in MainTables \cup {EmptyTable, NoExcelFile}
    /\ raw_events \in MainEventFiles
    /\ df_events = <<>>
    /\ top_date = 0
    /\ top_country = None
    /\ ols_events = <<>>
    /\ Idle
    /\ ScriptsIdle

\* detect_spikes_and_dips(df_currency) is called.
InitDetect ==
    /\ pc = "detect"
    /\ df_currency \in DetectTables
    /\ raw_events = <<>>
    /\ df_events = <<>>
    /\ top_date = 0
    /\ top_country = None
    /\ ols_events = <<>>
    /\ Idle
    /\ ScriptsIdle

\* The aggregation of main, lines 152-155, is about to run on a table of
\* attribution rows.
InitShares ==
    /\ pc = "aggregate"
    /\ df_currency = EmptyTable
    /\ raw_events = <<>>
    /\ df_events = <<>>
    /\ top_date = 0
    /\ top_country = None
    /\ ols_events = <<>>
    /\ col_i = 1
    /\ results = <<>>
    /\ row_i = 1
    /\ analysis_results \in AttributionTables
    /\ stats = {}
    /\ error = "none"
    /\ top_events = <<>>
    /\ features = {}
    /\ ScriptsIdle

\* get_top_events(events_df, date, country) is called.
InitTop ==
    /\ pc = "top_call"
    /\ df_currency = EmptyTable
    /\ raw_events = <<>>
    /\ df_events \in TopEventTables
    /\ top_date = 2
    /\ top_country = France
    /\ ols_events = <<>>
    /\ Idle
    /\ ScriptsIdle

\* One event with geography text g reaches both loaders.
InitGeo ==
    /\ pc = "geo"
    /\ df_currency = EmptyTable
    /\ \E g \in GeoTexts, dt \in {RawDate(1), BadDate} :
          /\ raw_events = <<[has_date |-> TRUE, has_geo |-> TRUE,
                             rows |-> <<[DATE |-> dt, GEO_COUNTRYCODE |-> g,
                                         COUNTTYPE |-> "PROTEST"]>>]>>
          /\ ols_events = <<[Date |-> dt, ActionGeo_Country |-> g,
                             EventCode |-> "PROTEST"]>>
    /\ df_events = <<>>
    /\ top_date = 0
    /\ top_country = None
    /\ Idle
    /\ ScriptsIdle

\* No monthly file exists yet; batches are about to be saved.
InitSave ==
    /\ MainIdle
    /\ EventFilesIdle
    /\ RatesIdle
    /\ OlsIdle
    /\ ModelTableIdle
    /\ YearIdle

\* Nothing is stored yet; one of the two rate updaters is run repeatedly.
InitRates ==
    /\ MainIdle
    /\ EventFilesIdle
    /\ rate_script \in {"historical_currencies", "update_historical_currencies"}
    /\ rate_store = <<>>
    /\ today = 1
    /\ start_date = 1
    /\ new_data = <<>>
    /\ rate_runs = 0
    /\ OlsIdle
    /\ ModelTableIdle
    /\ YearIdle

\* build_ols_event_treemap is called; the events have been aggregated.
InitOls ==
    /\ MainIdle
    /\ EventFilesIdle
    /\ RatesIdle
    /\ ols_pc = "call"
    /\ event_counts \in EventCountTables
    /\ currencies_df \in CurrencyTables
    /\ panel = <<>>
    /\ usd_strength = <<>>
    /\ X = <<>>
    /\ coeff_df = <<>>
    /\ ols_result = "pending"
    /\ ModelTableIdle
    /\ YearIdle

\* prepare_model_table reaches a currency in its loop.
InitModelTable ==
    /\ MainIdle
    /\ EventFilesIdle
    /\ RatesIdle
    /\ OlsIdle
    /\ mt_pc = "currency"
    /\ daily \in DailyIndexes
    /\ cur_prices \in PriceTables
    /\ model_tables = Skipped
    /\ YearIdle

\* process_year is called for the year; a month's file may be there
\* already.
InitYear ==
    /\ MainIdle
    /\ RatesIdle
    /\ OlsIdle
    /\ ModelTableIdle
    /\ monthly_file \in
          [Months -> {NoFile,
                      [exists |-> TRUE,
                       rows |-> <<[GlobalEventID |-> 2, EventCode |-> "14"]>>]}]
    /\ saved_ids = [m \in Months |-> {}]
    /\ py_pc = "start"
    /\ py_month = 1
    /\ py_url = 1
    /\ attempt = 0
    /\ all_dfs = <<>>
    /\ attempts_made = NoAttempts
    /\ frames_from = NoAttempts
    /\ file_writes = [m \in Range(SortedMonths) |-> [n |-> 0, zips |-> 0]]
    /\ downloads_after = 0

----------------------------------------------------------------------------
(* Actions *)

\* main, lines 109-113: load both tables, return when either is empty.
\* pd.read_excel of a file that does not exist raises FileNotFoundError
\* before the events are read; the KeyError of load_events_data ends main
\* as well.
LoadData ==
    /\ pc = "main"
    /\ IF df_currency = NoExcelFile
       THEN /\ pc' = "raised"
            /\ error' = "FileNotFoundError"
            /\ UNCHANGED df_events
       ELSE IF load_events_data(raw_events).raised
       THEN /\ pc' = "raised"
            /\ error' = "KeyError"
            /\ UNCHANGED df_events
       ELSE /\ df_events' = load_events_data(raw_events).rows
            /\ pc' = IF FrameEmpty(df_currency) \/ df_events' = <<>>
                     THEN "returned" ELSE "detect"
            /\ UNCHANGED error
    /\ UNCHANGED scriptVars
    /\ UNCHANGED <<df_currency, raw_events, col_i, results, row_i,
                   analysis_results, stats, top_date, top_country,
                   top_events, ols_events, features>>

\* detect_spikes_and_dips, lines 73-95: one iteration of the column loop.
DetectColumn ==
    /\ pc = "detect"
    /\ col_i <= Len(Columns)
    /\ results' = results \o ColumnRows(df_currency, Columns[col_i])
    /\ col_i' = AfterColumn(df_currency, col_i)
    /\ UNCHANGED scriptVars
    /\ UNCHANGED <<pc, df_currency, raw_events, df_events, row_i,
                   analysis_results, stats, error, top_date, top_country,
                   top_events, ols_events, features>>

\* detect_spikes_and_dips, line 97: the loop is over, the frame is returned.
DetectReturn ==
    /\ pc = "detect"
    /\ col_i > Len(Columns)
    /\ pc' = "detected"
    /\ UNCHANGED scriptVars
    /\ UNCHANGED <<df_currency, raw_events, df_events, col_i, results, row_i,
                   analysis_results, stats, error, top_date, top_country,
                   top_events, ols_events, features>>

\* main, lines 120-145: one anomaly row.  The row carries the keys
\* detect_spikes_and_dips gave it; reading a key it lacks raises KeyError.
AttributeRow ==
    /\ pc = "detected"
    /\ row_i <= Len(results)
    /\ LET row == results[row_i]
       IN IF {"Date", "Currency", "Type"} \subseteq DOMAIN row
          THEN /\ analysis_results' =
                      analysis_results \o AttributionRows(row, df_events)
               /\ row_i' = row_i + 1
               /\ UNCHANGED <<pc, error>>
          ELSE /\ pc' = "raised"
               /\ error' = "KeyError"
               /\ UNCHANGED <<row_i, analysis_results>>
    /\ UNCHANGED scriptVars
    /\ UNCHANGED <<df_currency, raw_events, df_events, col_i, results, stats,
                   top_date, top_country, top_events, ols_events, features>>

\* main, lines 147-155: save the attribution rows and build the share
\* table.  A frame built from no rows has no columns: grouping it by
\* SpikeDip and Event raises KeyError.
SaveAndAggregate ==
    /\ pc = "detected"
    /\ row_i > Len(results)
    /\ IF analysis_results = <<>>
       THEN /\ pc' = "raised"
            /\ error' = "KeyError"
            /\ UNCHANGED stats
       ELSE /\ stats' = ShareTable(analysis_results)
            /\ pc' = "done"
            /\ UNCHANGED error
    /\ UNCHANGED scriptVars
    /\ UNCHANGED <<df_currency, raw_events, df_events, col_i, results, row_i,
                   analysis_results, top_date, top_country, top_events,
                   ols_events, features>>

\* Lines 152-155 on a table of attribution rows: the share table, or
\* KeyError for a frame built from no rows.
AggregateCall ==
    /\ pc = "aggregate"
    /\ IF analysis_results = <<>>
       THEN /\ pc' = "raised"
            /\ error' = "KeyError"
            /\ UNCHANGED stats
       ELSE /\ stats' = ShareTable(analysis_results)
            /\ pc' = "aggregated"
            /\ UNCHANGED error
    /\ UNCHANGED scriptVars
    /\ UNCHANGED <<df_currency, raw_events, df_events, col_i, results, row_i,
                   analysis_results, top_date, top_country, top_events,
                   ols_events, features>>

\* get_top_events called with the default top_n.
GetTopEventsCall ==
    /\ pc = "top_call"
    /\ top_events' = get_top_events(df_events, top_date, top_country, DEFAULT_TOP_N)
    /\ pc' = "top_ret"
    /\ UNCHANGED scriptVars
    /\ UNCHANGED <<df_currency, raw_events, df_events, col_i, results, row_i,
                   analysis_results, stats, error, top_date, top_country,
                   ols_events, features>>

\* load_events_data reads the event files.
LoadEventsCall ==
    /\ pc = "geo"
    /\ df_events' = load_events_data(raw_events).rows
    /\ pc' = IF load_events_data(raw_events).raised THEN "raised" ELSE "loaded"
    /\ error' = IF load_events_data(raw_events).raised THEN "KeyError" ELSE error
    /\ UNCHANGED scriptVars
    /\ UNCHANGED <<df_currency, raw_events, col_i, results, row_i,
                   analysis_results, stats, top_date, top_country,
                   top_events, ols_events, features>>

\* build_event_features reads the event table.
BuildFeaturesCall ==
    /\ pc = "geo"
    /\ features' = build_event_features(ols_events)
    /\ pc' = "features"
    /\ UNCHANGED scriptVars
    /\ UNCHANGED <<df_currency, raw_events, df_events, col_i, results, row_i,
                   analysis_results, stats, error, top_date, top_country,
                   top_events, ols_events>>

\* save_monthly(df, year, month) is called with one batch of a month.
SaveMonthly ==
    /\ \E df \in Batches, month \in Months :
          /\ monthly_file' =
                 [monthly_file EXCEPT ![month] = save_monthly(@, df)]
          /\ saved_ids' =
                 [saved_ids EXCEPT
                     ![month] = @ \cup {GlobalEventID(r) : r \in Range(df)}]
    /\ UNCHANGED <<mainVars, rateVars, olsVars, modelTableVars, yearVars>>

\* historical_currencies.update_currency_data: one run, on day t.
UpdateCurrencyData ==
    /\ rate_script = "historical_currencies"
    /\ rate_runs < MaxRuns
    /\ rate_runs' = rate_runs + 1
    /\ \E t \in today..MaxDay :
          /\ today' = t
          /\ start_date' = StartDate(rate_store)
          /\ IF start_date' > t
             THEN /\ new_data' = <<>>
                  /\ UNCHANGED rate_store
             ELSE \E fetched \in Downloads(start_date', t) :
                     /\ new_data' = add_pct_change(fetched)
                     /\ rate_store' = IF new_data' = <<>>
                                      THEN rate_store
                                      ELSE MergeParquet(rate_store, new_data')
    /\ UNCHANGED <<rate_script, mainVars, eventFileVars, olsVars, modelTableVars,
                   yearVars>>

\* update_historical_currencies.main: one run, on day t.
UpdateExcel ==
    /\ rate_script = "update_historical_currencies"
    /\ rate_runs < MaxRuns
    /\ rate_runs' = rate_runs + 1
    /\ \E t \in today..MaxDay :
          /\ today' = t
          /\ start_date' = StartDate(rate_store)
          /\ IF start_date' > t
             THEN /\ new_data' = <<>>
                  /\ UNCHANGED rate_store
             ELSE \E fetched \in Downloads(start_date', t) :
                     /\ new_data' = add_pct_change(fetched)
                     /\ rate_store' = MergeExcel(rate_store, new_data')
    /\ UNCHANGED <<rate_script, mainVars, eventFileVars, olsVars, modelTableVars,
                   yearVars>>

\* build_ols_event_treemap, lines 87-113: the early returns and the
\* alignment of the two frames on their common dates.
OlsAlign ==
    /\ ols_pc = "call"
    /\ IF \/ DOMAIN event_counts = {}
          \/ pct_cols(currencies_df) = {}
          \/ common_idx(event_counts, currencies_df) = {}
       THEN /\ ols_pc' = "returned"
            /\ ols_result' = "None"
            /\ UNCHANGED panel
       ELSE /\ panel' = Align(event_counts, currencies_df)
            /\ ols_pc' = "aligned"
            /\ UNCHANGED ols_result
    /\ UNCHANGED <<event_counts, currencies_df, usd_strength, X, coeff_df>>
    /\ UNCHANGED <<mainVars, eventFileVars, rateVars, modelTableVars, yearVars>>

\* Lines 115-129: the response and the regressor columns.
OlsTarget ==
    /\ ols_pc = "aligned"
    /\ usd_strength' = [i \in DOMAIN panel |-> UsdStrength(panel[i])]
    /\ X' = NonZeroColumns(panel)
    /\ IF X' = <<>>
       THEN ols_pc' = "returned" /\ ols_result' = "None"
       ELSE ols_pc' = "design" /\ UNCHANGED ols_result
    /\ UNCHANGED <<event_counts, currencies_df, panel, coeff_df>>
    /\ UNCHANGED <<mainVars, eventFileVars, rateVars, modelTableVars, yearVars>>

\* Lines 133-182: the fit, whose parameters are statsmodels' to choose,
\* and the label rows.
OlsFit ==
    /\ ols_pc = "design"
    /\ \E params \in [Range(add_constant(panel, X)) -> Coefs] :
          coeff_df' = CoeffRows(params, add_constant(panel, X))
    /\ ols_pc' = "returned"
    /\ ols_result' = "dict"
    /\ UNCHANGED <<event_counts, currencies_df, panel, usd_strength, X>>
    /\ UNCHANGED <<mainVars, eventFileVars, rateVars, modelTableVars, yearVars>>

\* prepare_model_table, lines 152-179: one iteration of the currency
\* loop.  No event of the currency's countries, or no date in both frames:
\* the currency is skipped.
PrepareModelTable ==
    /\ mt_pc = "currency"
    /\ model_tables' =
          IF daily = {} \/ InnerJoin(daily, cur_prices) = <<>>
          THEN Skipped
          ELSE [built |-> TRUE,
                rows |-> WithTarget(InnerJoin(daily, cur_prices))]
    /\ mt_pc' = "next"
    /\ UNCHANGED <<daily, cur_prices>>
    /\ UNCHANGED <<mainVars, eventFileVars, rateVars, olsVars, yearVars>>

\* process_year, lines 88-100: the index is fetched and the year's files
\* are grouped by month.  fetch_gdelt_index raises when the request fails
\* (requests.get, raise_for_status); nothing in process_year catches it.
YearFetch ==
    /\ py_pc = "start"
    /\ py_pc' \in {"month", "raised"}
    /\ UNCHANGED <<py_month, py_url, attempt, all_dfs, attempts_made,
                   frames_from, file_writes, downloads_after>>
    /\ UNCHANGED <<mainVars, eventFileVars, rateVars, olsVars, modelTableVars>>

\* process_year, lines 102-109: the month loop reaches a month, or ends.
YearMonth ==
    /\ py_pc = "month"
    /\ IF py_month > Len(SortedMonths)
       THEN /\ py_pc' = "done"
            /\ UNCHANGED <<py_month, py_url, attempt, all_dfs>>
       ELSE IF SkipMonth(monthly_file[SortedMonths[py_month]])
       THEN /\ py_month' = py_month + 1
            /\ UNCHANGED <<py_pc, py_url, attempt, all_dfs>>
       ELSE /\ py_pc' = "url"
            /\ py_url' = 1
            /\ attempt' = 0
            /\ all_dfs' = <<>>
            /\ UNCHANGED py_month
    /\ UNCHANGED <<attempts_made, frames_from, file_writes, downloads_after>>
    /\ UNCHANGED <<mainVars, eventFileVars, rateVars, olsVars, modelTableVars>>

\* Lines 117-130: one pass of the retry loop for the current URL.  The
\* download succeeds with some frame or raises.
YearAttempt ==
    /\ py_pc = "url"
    /\ py_url <= MaxUrls
    /\ LET m == SortedMonths[py_month]
       IN /\ attempts_made' =
                [attempts_made EXCEPT ![m][py_url] = @ + 1]
          /\ downloads_after' =
                IF frames_from[m][py_url] > 0
                THEN downloads_after + 1 ELSE downloads_after
          /\ \/ \E df \in ZipFrames :
                   /\ all_dfs' = Append(all_dfs, df)
                   /\ frames_from' = [frames_from EXCEPT ![m][py_url] = @ + 1]
                   /\ py_url' = AfterSuccess(py_url, attempt).url
                   /\ attempt' = AfterSuccess(py_url, attempt).attempt
             \/ /\ py_url' = AfterFailure(py_url, attempt).url
                /\ attempt' = AfterFailure(py_url, attempt).attempt
                /\ UNCHANGED <<all_dfs, frames_from>>
    /\ UNCHANGED <<py_pc, py_month, file_writes>>
    /\ UNCHANGED <<mainVars, eventFileVars, rateVars, olsVars, modelTableVars>>

\* Lines 132-138: the URLs of the month are through; the frames, if any,
\* are concatenated, deduplicated and saved.  These lines stand outside the
\* try of the retry loop: when the save raises (os.makedirs or to_parquet
\* in save_monthly) process_year ends there, the month's file as it was.
YearSave ==
    /\ py_pc = "url"
    /\ py_url > MaxUrls
    /\ LET m == SortedMonths[py_month]
           final_df == DropDuplicates(Concat(all_dfs), {"GlobalEventID"})
       IN IF all_dfs # <<>>
          THEN \/ /\ monthly_file' =
                        [monthly_file EXCEPT ![m] = save_monthly(@, final_df)]
                  /\ saved_ids' =
                        [saved_ids EXCEPT
                            ![m] = @ \cup {GlobalEventID(r) : r \in Range(final_df)}]
                  /\ file_writes' =
                        [file_writes EXCEPT
                            ![m] = [n |-> @.n + 1, zips |-> Len(all_dfs)]]
                  /\ py_month' = py_month + 1
                  /\ py_pc' = "month"
               \/ /\ py_pc' = "raised"
                  /\ UNCHANGED <<monthly_file, saved_ids, file_writes, py_month>>
          ELSE /\ py_month' = py_month + 1
               /\ py_pc' = "month"
               /\ UNCHANGED <<monthly_file, saved_ids, file_writes>>
    /\ UNCHANGED <<py_url, attempt, all_dfs, attempts_made, frames_from,
                   downloads_after>>
    /\ UNCHANGED <<mainVars, rateVars, olsVars, modelTableVars>>

\* process_year is run again for the year.
YearRunAgain ==
    /\ py_pc \in {"done", "raised"}
    /\ py_pc' = "start"
    /\ py_month' = 1
    /\ py_url' = 1
    /\ attempt' = 0
    /\ all_dfs' = <<>>
    /\ attempts_made' = NoAttempts
    /\ frames_from' = NoAttempts
    /\ UNCHANGED <<file_writes, downloads_after>>
    /\ UNCHANGED <<mainVars, eventFileVars, rateVars, olsVars, modelTableVars>>

----------------------------------------------------------------------------
(* Specifications *)

Next == LoadData \/ DetectColumn \/ DetectReturn \/ AttributeRow \/ SaveAndAggregate

Spec == Init /\ [][Next]_vars

NextDetect == DetectColumn \/ DetectReturn

SpecDetect == InitDetect /\ [][NextDetect]_vars

NextShares == AggregateCall

SpecShares == InitShares /\ [][NextShares]_vars

NextTop == GetTopEventsCall

SpecTop == InitTop /\ [][NextTop]_vars

NextGeo == LoadEventsCall \/ BuildFeaturesCall

SpecGeo == InitGeo /\ [][NextGeo]_vars

NextSave == SaveMonthly

SpecSave == InitSave /\ [][NextSave]_vars

NextRates == UpdateCurrencyData \/ UpdateExcel

SpecRates == InitRates /\ [][NextRates]_vars

NextOls == OlsAlign \/ OlsTarget \/ OlsFit

SpecOls == InitOls /\ [][NextOls]_vars

NextModelTable == PrepareModelTable

SpecModelTable == InitModelTable /\ [][NextModelTable]_vars

NextYear == YearFetch \/ YearMonth \/ YearAttempt \/ YearSave \/ YearRunAgain

SpecYear == InitYear /\ [][NextYear]_vars

\* A run of process_year that is not at its end takes its next step: the
\* script runs on its own thread and every download returns or raises
\* (timeout=120).
RunStep == YearFetch \/ YearMonth \/ YearAttempt \/ YearSave

SpecYearFair == SpecYear /\ WF_vars(RunStep)

----------------------------------------------------------------------------
(* Claims about detect_spikes_and_dips (SpecDetect) *)

\* The statistics of a column as the claims state them, from the raw
\* moments: n values, sum S, sum of squares Q; mu = S/n and
\* sigma^2 = (Q - S^2/n)/(n - 1).
ClaimN(col) == Cardinality(DOMAIN df_currency.data[col])

ClaimS(col) == SumOver(df_currency.data[col], DOMAIN df_currency.data[col])

ClaimQ(col) ==
    SumOver([d \in DOMAIN df_currency.data[col] |->
                df_currency.data[col][d] * df_currency.data[col][d]],
            DOMAIN df_currency.data[col])

\* sigma is defined and not 0
ClaimDispersed(col) ==
    ClaimN(col) >= 2 /\ ClaimN(col) * ClaimQ(col) - ClaimS(col) * ClaimS(col) > 0

\* |(v - mu)/sigma| >= Z_THRESHOLD for the value v of column col on row t
ClaimAnomalous(col, t) ==
    LET n == ClaimN(col)
        num == n * df_currency.data[col][t] - ClaimS(col)
    IN /\ ClaimDispersed(col)
       /\ num * num * (n - 1) >=
              Z_THRESHOLD * Z_THRESHOLD * n * (n * ClaimQ(col) - ClaimS(col) * ClaimS(col))

\* z > 0, z < 0
ClaimZPositive(col, t) == ClaimN(col) * df_currency.data[col][t] > ClaimS(col)

ClaimZNegative(col, t) == ClaimN(col) * df_currency.data[col][t] < ClaimS(col)

\* The anomalies emitted for (date d, column col).
RowsOf(col, d) ==
    {i \in DOMAIN results : results[i].CURRENCY = col /\ results[i].DATE = d}

\* The values of column col dated d that lie Z_THRESHOLD deviations or more
\* from the mean, above it for SPIKE and below it for DIP.
ClaimValues(col, d, type) ==
    {t \in DOMAIN df_currency.data[col] :
        /\ df_currency.date[t] = d
        /\ ClaimAnomalous(col, t)
        /\ IF type = "SPIKE" THEN ClaimZPositive(col, t)
           ELSE ClaimZNegative(col, t)}

\* The columns the loop has been through.
Processed == {Columns[k] : k \in {j \in DOMAIN Columns : j < col_i}}

\* C1: for every processed column and every date t holding a value v, an
\* anomaly is emitted for (t, column) if and only if |(v - mu)/sigma| >= Z,
\* mu and sigma taken over all non-missing values of the column; it is a
\* SPIKE when z > 0 and a DIP when z < 0; no anomaly is emitted on a date
\* without a value.  Value by value: the SPIKE (DIP) anomalies of a date
\* are as many as the values of that date with z >= Z (z <= -Z).
C1_ZScoreThreshold ==
    \A col \in Processed :
        /\ \A i \in DOMAIN results :
              results[i].CURRENCY = col =>
                  results[i].DATE \in Dates /\ results[i].TYPE \in {"SPIKE", "DIP"}
        /\ \A d \in Dates, type \in {"SPIKE", "DIP"} :
              Cardinality({i \in RowsOf(col, d) : results[i].TYPE = type})
                  = Cardinality(ClaimValues(col, d, type))

\* C1 witness: detection has returned a SPIKE and a DIP, one of them for a
\* column in which other dates hold values that are not anomalies.
C1_Witness ==
    /\ pc = "detected"
    /\ \E i, j \in DOMAIN results :
          /\ results[i].TYPE = "SPIKE"
          /\ results[j].TYPE = "DIP"
          /\ \E t \in DOMAIN df_currency.data[results[i].CURRENCY] :
                RowsOf(results[i].CURRENCY, df_currency.date[t]) = {}

\* All non-missing values of the column are equal: one value, or none.
ClaimFlat(col) ==
    \A d, e \in DOMAIN df_currency.data[col] :
        df_currency.data[col][d] = df_currency.data[col][e]

\* C2: when detection has returned, a column without dispersion has no
\* anomaly, no error was raised, and every other column has all the rows
\* its own iteration produces.
C2_FlatColumnSkipped ==
    pc = "detected" =>
        /\ error = "none"
        /\ \A col \in Range(Columns) :
              IF ClaimFlat(col)
              THEN \A i \in DOMAIN results : results[i].CURRENCY # col
              ELSE SelectSeq(results, LAMBDA r : r.CURRENCY = col)
                       = ColumnRows(df_currency, col)

\* C2 witness: the first column holds the same value on all its dates, the
\* loop went on and found an anomaly in the second column.
C2_Witness ==
    /\ pc = "detected"
    /\ ClaimFlat(Columns[1])
    /\ ClaimN(Columns[1]) >= 2
    /\ \E i \in DOMAIN results : results[i].CURRENCY = Columns[2]

\* C3: no (date, currency) pair appears twice among the anomalies, in
\* particular none is listed both as SPIKE and as DIP.  (Violated by a
\* table that holds a date on two rows: each row gives its own anomaly.)
C3_OnePerDateCurrency ==
    \A i, j \in DOMAIN results :
        (results[i].DATE = results[j].DATE
            /\ results[i].CURRENCY = results[j].CURRENCY) => i = j

\* On a table that holds every date once, no pair appears twice.
C3_OnePerPairWithoutRepeatedDate ==
    (\A p, q \in df_currency.index :
        df_currency.date[p] = df_currency.date[q] => p = q)
    => C3_OnePerDateCurrency

----------------------------------------------------------------------------
(* Claims about attribution and aggregation in main (Spec) *)

Terminal == pc \in {"returned", "raised", "done"}

\* The loaded events on the lag date of anomaly a in the countries of its
\* currency.
LagEvents(a) ==
    {i \in DOMAIN df_events :
        /\ df_events[i].DATE = a.DATE - 1
        /\ df_events[i].COUNTRY \in CURRENCY_TO_COUNTRIES[a.CURRENCY]}

\* The attribution rows of anomaly a.
AttributedTo(a) ==
    {i \in DOMAIN analysis_results :
        /\ analysis_results[i].Date = a.DATE
        /\ analysis_results[i].Currency = a.CURRENCY}

CodeIndex(c) == CHOOSE i \in DOMAIN CategoryOrder : CategoryOrder[i] = c

\* The categories of a sequence of category codes ranked as the claims rank
\* them: summed weight (one per event) descending, equal weights by
\* category code ascending; the first n of them.
ClaimTop(cats, n) ==
    LET keys == Range(cats)
        w(k) == Cardinality({i \in DOMAIN cats : cats[i] = k})
        rank(k) == 1 + Cardinality({j \in keys :
                        \/ w(j) > w(k)
                        \/ w(j) = w(k) /\ CodeIndex(j) < CodeIndex(k)})
        kept == IF n < Cardinality(keys) THEN n ELSE Cardinality(keys)
    IN [r \in 1..kept |->
           LET k == CHOOSE j \in keys : rank(j) = r
           IN [key |-> k, count |-> w(k)]]

\* C4: when the run has ended, the events counted for each anomaly (the
\* counts of its attribution rows, added up) are exactly the events on the
\* day before it in the countries of its currency.
C4_LagDateAndCountrySet ==
    (Terminal /\ pc # "returned") =>
        \A k \in DOMAIN results :
            SumOver([i \in AttributedTo(results[k]) |-> analysis_results[i].Count],
                    AttributedTo(results[k]))
                = Cardinality(LagEvents(results[k]))

\* C6: an anomaly without any event on its lag date in its countries adds
\* no attribution row and the run raises no error.
C6_NoEventsNoError ==
    \A k \in DOMAIN results :
        LagEvents(results[k]) = {} =>
            /\ AttributedTo(results[k]) = {}
            /\ error = "none"

Directions == {"SPIKE", "DIP"}

MainCategories == {"PROTEST"}

\* The attributed weight of category cat over the anomalies of direction
\* dir: the events of that category on each anomaly's lag date.  (The event
\* files of the model hold at most DEFAULT_TOP_N categories, so every
\* category of an anomaly is one of its top categories.)
ClaimWeight(dir, cat) ==
    LET anomalies == {k \in DOMAIN results : results[k].TYPE = dir}
    IN SumOver([k \in anomalies |->
                   Cardinality({i \in LagEvents(results[k]) :
                                   df_events[i].COUNTTYPE = cat})],
               anomalies)

ClaimTotalWeight(dir) ==
    SumOver([cat \in MainCategories |-> ClaimWeight(dir, cat)], MainCategories)

\* C7: when the run has ended, the share table holds, for every direction
\* and category with attributed weight, 100 * weight / (weight of all
\* categories of that direction), to within half a hundredth.
C7_ShareFormula ==
    Terminal =>
        \A dir \in Directions, cat \in MainCategories :
            ClaimWeight(dir, cat) > 0 =>
                \E s \in stats :
                    /\ s.SpikeDip = dir
                    /\ s.Event = cat
                    /\ 2 * (s.Percentage * ClaimTotalWeight(dir)
                              - 10000 * ClaimWeight(dir, cat)) <= ClaimTotalWeight(dir)
                    /\ 2 * (10000 * ClaimWeight(dir, cat)
                              - s.Percentage * ClaimTotalWeight(dir)) <= ClaimTotalWeight(dir)

SharesOf(dir) == {s \in stats : s.SpikeDip = dir}

\* The attribution rows of a direction.
AttributionOf(dir) ==
    {i \in DOMAIN analysis_results : analysis_results[i].SpikeDip = dir}

\* The share table has been built.
Aggregated == pc \in {"aggregated", "done"}

\* C8: once the share table is built, the percentages of every direction
\* that has at least one attribution row add up to 100, to within half a
\* hundredth per category; a direction without attribution row never has
\* a share row.
C8_SharesSumTo100 ==
    \A dir \in Directions :
        IF AttributionOf(dir) # {}
        THEN Aggregated =>
                LET total == SumOver([s \in SharesOf(dir) |-> s.Percentage],
                                     SharesOf(dir))
                IN /\ SharesOf(dir) # {}
                   /\ 2 * (total - 10000) <= Cardinality(SharesOf(dir))
                   /\ 2 * (10000 - total) <= Cardinality(SharesOf(dir))
        ELSE SharesOf(dir) = {}

\* C8 witness: the share table of three SPIKE rows of three categories,
\* 33.33 each, which add up to 99.99; DIP has no row and no share.
C8_Witness ==
    /\ pc = "aggregated"
    /\ Cardinality(SharesOf("SPIKE")) = 3
    /\ SumOver([s \in SharesOf("SPIKE") |-> s.Percentage], SharesOf("SPIKE")) = 9999
    /\ AttributionOf("DIP") = {}
    /\ SharesOf("DIP") = {}

\* The end-to-end scenario: EUR is flat but for a last-date value that is
\* an anomaly, JPY has no anomaly, and the one event file holds one event,
\* in France on the day before.
C9_Scenario ==
    /\ df_currency = Table(ColumnOf({0}, NumDates, {1}), ColumnOf({0}, 0, {}))
    /\ raw_events = <<[has_date |-> TRUE, has_geo |-> TRUE,
                       rows |-> <<[DATE |-> RawDate(NumDates - 1),
                                   GEO_COUNTRYCODE |-> France,
                                   COUNTTYPE |-> "PROTEST"]>>]>>

\* C9: in the end-to-end scenario the run completes with the anomaly
\* (d, EUR, SPIKE), the one attribution row (d, EUR, SPIKE, PROTEST, 1) and
\* a share of 100 for (SPIKE, PROTEST).
C9_EndToEnd ==
    (Terminal /\ C9_Scenario) =>
        /\ pc = "done"
        /\ error = "none"
        /\ results = <<AnomalyRow(NumDates, "EUR", "SPIKE")>>
        /\ analysis_results =
               <<[Date |-> NumDates, Currency |-> "EUR", SpikeDip |-> "SPIKE",
                  Event |-> "PROTEST", Count |-> 1]>>
        /\ \E s \in stats :
              s.SpikeDip = "SPIKE" /\ s.Event = "PROTEST" /\ s.Percentage = 10000

----------------------------------------------------------------------------
(* Claim about get_top_events (SpecTop) *)

\* C5: get_top_events returns the DEFAULT_TOP_N categories of the events of
\* the lag date and country with the highest summed weight, in descending
\* order of weight, equal weights in ascending order of category code, so
\* that the order of the event rows does not matter.
C5_TopNByWeightThenCode ==
    pc = "top_ret" =>
        LET selected == SelectSeq(df_events,
                            LAMBDA r : r.DATE = top_date - 1 /\ r.COUNTRY = top_country)
        IN top_events =
               ClaimTop([i \in 1..Len(selected) |-> selected[i].COUNTTYPE],
                        DEFAULT_TOP_N)

----------------------------------------------------------------------------
(* Claim about country extraction (SpecGeo) *)

TheGeo == raw_events[1].rows[1].GEO_COUNTRYCODE

TheDate == raw_events[1].rows[1].DATE

\* The country the claim gives a geography value: null when the value is
\* missing, empty or blank, else the trimmed text after the last comma, or
\* the trimmed whole text when there is no comma.
ClaimCountry(g) ==
    IF g.na \/ Strip(g.s) = <<>> THEN None
    ELSE IF HasComma(g.s) THEN Str(Strip(SplitLast(g.s)))
    ELSE Str(Strip(g.s))

\* The part of C10 about extract_country_from_geo and build_event_features:
\* an event with a readable date is grouped under the country of the rule
\* above, and under no group when that country is null.
C10_FeaturesPart ==
    (pc = "features" /\ TheDate.ok) =>
        IF ClaimCountry(TheGeo).na THEN features = {}
        ELSE {f.Country : f \in features} = {ClaimCountry(TheGeo)}

\* C10: from either loader an event with a readable date comes out with
\* the country of the rule above, and does not come out at all when that
\* country is null.
C10_CountryExtraction ==
    /\ C10_FeaturesPart
    /\ (pc = "loaded" /\ TheDate.ok) =>
          IF ClaimCountry(TheGeo).na THEN df_events = <<>>
          ELSE /\ Len(df_events) = 1
               /\ df_events[1].COUNTRY = ClaimCountry(TheGeo)

\* The geography value of the event handed to build_event_features.
TheOlsGeo == ols_events[1].ActionGeo_Country

\* A returned country is a string with no blank at either end and no comma;
\* it may be empty.
C25_TrimmedNoComma ==
    pc = "features" =>
        LET c == extract_country_from_geo(TheOlsGeo)
        IN c.na \/ (Strip(c.s) = c.s /\ ~HasComma(c.s))

\* Claim C25: extract_country_from_geo returns null or a non-empty string
\* with no leading or trailing whitespace and no comma, never the empty
\* string, so build_event_features keys no event under an empty country.
C25_NeverEmptyCountry ==
    /\ C25_TrimmedNoComma
    /\ pc = "features" =>
          /\ ~extract_country_from_geo(TheOlsGeo).na =>
                extract_country_from_geo(TheOlsGeo).s # <<>>
          /\ \A f \in features : f.Country.s # <<>>

----------------------------------------------------------------------------
(* Claims about save_monthly (SpecSave) *)

FileIds(month) == {GlobalEventID(r) : r \in Range(monthly_file[month].rows)}

\* Every GlobalEventID handed to save_monthly so far is in the month's file.
C11_EveryIdPresent == \A m \in Months : saved_ids[m] \subseteq FileIds(m)

\* Claim C11: after any sequence of save_monthly calls for one month,
\* starting from no file, the stored file has at most one row per
\* GlobalEventID, and every GlobalEventID of any saved batch is present.
C11_OneRowPerEventId ==
    \A m \in Months :
        monthly_file[m].exists =>
            /\ \A i, j \in DOMAIN monthly_file[m].rows :
                  GlobalEventID(monthly_file[m].rows[i])
                      = GlobalEventID(monthly_file[m].rows[j]) => i = j
            /\ saved_ids[m] \subseteq FileIds(m)

----------------------------------------------------------------------------
(* Claims about the rate updaters (SpecRates) *)

\* The rows of a frame that carry date d, in order.
RowsOn(rows, d) == SelectSeq(rows, LAMBDA r : Date(r) = d)

\* A run has just merged fetched rows into the stored table.
Merged == rate_runs' = rate_runs + 1 /\ new_data' # <<>>

\* Claim C12: when a rate update merges newly fetched rows into a stored
\* table and a date occurs both in the stored table and in the new rows,
\* the merged table keeps the newly fetched row for that date and discards
\* the older stored row.
C12_KeepsLatestIngested ==
    [][Merged =>
          \A d \in DatesOf(rate_store) \cap DatesOf(new_data') :
              RowsOn(rate_store', d) = RowsOn(new_data', d)]_vars

\* Claim C13: after any sequence of incremental rate-update runs, the
\* stored rate table has exactly one row per date, with dates strictly
\* increasing.
C13_OneRowPerDateAscending ==
    \A i, j \in DOMAIN rate_store :
        i < j => Date(rate_store[i]) < Date(rate_store[j])

\* The stored rows dated before row r, and those on the date preceding r's.
Earlier(r) == {q \in Range(rate_store) : Date(q) < Date(r)}

Preceding(r) == {q \in Earlier(r) : \A e \in Earlier(r) : Date(e) <= Date(q)}

\* The % change is missing on no stored date but the first.
C14_DefinedAfterFirstDate ==
    \A r \in Range(rate_store) : Earlier(r) # {} => ~r.EUR_Chg.nan

\* Claim C14: in the stored rate table a currency's percentage change is
\* absent only on the first date of its series; on every later date t,
\* the first date of each newly fetched batch included, it is defined and
\* equals (price[t] / price[t-1] - 1) * 100, t-1 being the preceding date
\* of the series.  (EUR_Chg is in tenths of a percent.)
C14_PctChangeOverSeries ==
    \A r \in Range(rate_store) :
        IF Earlier(r) = {}
        THEN r.EUR_Chg.nan
        ELSE /\ ~r.EUR_Chg.nan
             /\ \A q \in Preceding(r) :
                   r.EUR_Chg.v * q.EUR = 1000 * (r.EUR - q.EUR)

----------------------------------------------------------------------------
(* Claims about build_ols_event_treemap (SpecOls) *)

\* The response and the regressor columns have been computed.
Filtered == usd_strength # <<>>

\* The values a category column takes over the panel rows.
ColumnValues(c) == {panel[i].counts[c] : i \in DOMAIN panel}

\* Claim C15: before fitting, every event-category column with
\* zero variance across the panel rows is dropped, so that no constant
\* category column enters the design matrix; every column with at least
\* two distinct values across the panel rows is retained.
C15_ZeroVarianceDropped ==
    Filtered =>
        \A c \in Range(CountTypes) :
            /\ Cardinality(ColumnValues(c)) = 1 => c \notin Range(X)
            /\ Cardinality(ColumnValues(c)) >= 2 => c \in Range(X)

\* What line 126 does: exactly the event-category columns whose counts are
\* 0 on every panel row are dropped; a column that is constant but not 0
\* stays, as does every column with at least two distinct values.
C15_AllZeroDropped ==
    Filtered =>
        \A c \in Range(CountTypes) :
            /\ ColumnValues(c) = {0} => c \notin Range(X)
            /\ ColumnValues(c) # {0} => c \in Range(X)
            /\ Cardinality(ColumnValues(c)) >= 2 => c \in Range(X)

\* The label rows name each retained category once and nothing else.
OneRowPerCategory ==
    /\ Len(coeff_df) = Len(X)
    /\ \A c \in Range(X) :
          Cardinality({i \in DOMAIN coeff_df : coeff_df[i].COUNTTYPE = c}) = 1
    /\ \A i \in DOMAIN coeff_df : coeff_df[i].COUNTTYPE # "const"

\* Claim C16 as stated: each fitted category coefficient is labelled by
\* its sign with a deadband around zero: above the deadband "Weaken",
\* below it "Strengthen", inside it (|coef| < 1e-6, 10 units) "Neutral";
\* exactly one label row per retained category, none for the intercept.
C16_SignWithDeadband ==
    ols_result = "dict" =>
        /\ OneRowPerCategory
        /\ \A i \in DOMAIN coeff_df :
              /\ coeff_df[i].coef >= 10 => coeff_df[i].Impact = "Weaken"
              /\ coeff_df[i].coef <= -10 => coeff_df[i].Impact = "Strengthen"
              /\ (coeff_df[i].coef > -10 /\ coeff_df[i].coef < 10)
                    => coeff_df[i].Impact = "Neutral"

\* Claim C16, amended: each fitted category coefficient is labelled by its
\* sign with no deadband: coefficient > 0 gives "Weaken", coefficient < 0
\* gives "Strengthen", however small, and only a coefficient equal to 0
\* gives "Neutral"; exactly one label row per retained category, none for
\* the intercept.
C16_SignExact ==
    ols_result = "dict" =>
        /\ OneRowPerCategory
        /\ \A i \in DOMAIN coeff_df :
              /\ coeff_df[i].coef > 0 => coeff_df[i].Impact = "Weaken"
              /\ coeff_df[i].coef < 0 => coeff_df[i].Impact = "Strengthen"
              /\ coeff_df[i].coef = 0 => coeff_df[i].Impact = "Neutral"

\* A fit with an intercept and two categories, one of them with a
\* coefficient of 5e-7, labelled "Weaken".
C16_Witness ==
    /\ ols_result = "dict"
    /\ Len(X) = 2
    /\ "const" \in Range(add_constant(panel, X))
    /\ \E i \in DOMAIN coeff_df :
          coeff_df[i].coef = 5 /\ coeff_df[i].Impact = "Weaken"

\* The dates present in both the event aggregation and the rate table.
BothDates ==
    {d \in PanelDays : d \in DOMAIN event_counts /\ d \in DOMAIN currencies_df.data}

\* Claim C17: the regression panel has exactly one row for each date
\* present both in the daily event aggregation and in the currency
\* percentage-change table, and no row for any other date; when the two
\* date sets do not intersect the regressor returns no result, without
\* raising.
C17_PanelIsIntersection ==
    /\ (ols_pc \in {"aligned", "design"} \/ ols_result = "dict") =>
          /\ \A d \in BothDates :
                Cardinality({i \in DOMAIN panel : panel[i].date = d}) = 1
          /\ \A i \in DOMAIN panel : panel[i].date \in BothDates
    /\ (ols_pc # "call" /\ BothDates = {}) =>
          /\ ols_pc = "returned"
          /\ ols_result = "None"
          /\ panel = <<>>

\* Events on days 1, 2 and 3, rates on days 2 and 3 only: a panel of two rows.
C17_Witness ==
    /\ ols_pc = "aligned"
    /\ DOMAIN event_counts = {1, 2, 3}
    /\ DOMAIN currencies_df.data = {2, 3}
    /\ Len(panel) = 2

\* The currencies with a % change in the rate table on date t.
Present(t) == {c \in Currencies : ~currencies_df.data[t][c].nan}

\* Claim C18 as stated: for every panel date t, usd_strength[t] equals
\* the negative of the mean of the tracked currencies' percentage changes
\* on date t (the mean of the changes the table holds on t).
C18_NegativeMeanOnDate ==
    Filtered =>
        \A i \in DOMAIN usd_strength :
            Present(panel[i].date) # {} =>
                usd_strength[i].num * Cardinality(Present(panel[i].date)) =
                    (0 - SumOver([c \in Present(panel[i].date) |->
                                     currencies_df.data[panel[i].date][c].v],
                                 Present(panel[i].date))) * usd_strength[i].den

\* The % change of currency c that counts on panel date t: the one the
\* table holds on the latest panel date up to t where it holds one, 0
\* when there is no such date.
LastKnown(c, t) ==
    LET known == {d \in BothDates : d <= t /\ ~currencies_df.data[d][c].nan}
    IN IF known = {} THEN 0
       ELSE currencies_df.data[CHOOSE d \in known : \A e \in known : e <= d][c].v

\* Claim C18, amended: for every panel date t, usd_strength[t] equals the
\* negative of the mean, over all tracked currencies, of the currency's
\* percentage change on date t, a missing change being replaced by the
\* currency's change on the latest earlier panel date that has one, and
\* by 0 when there is none.
C18_NegativeMeanFilled ==
    Filtered =>
        \A i \in DOMAIN usd_strength :
            /\ usd_strength[i].den = Cardinality(Currencies)
            /\ usd_strength[i].num =
                  0 - SumOver([c \in Currencies |-> LastKnown(c, panel[i].date)],
                              Currencies)

\* On the second panel date EUR has no % change but had one on the first,
\* and JPY has one: the response is -(1 + 3)/2.
C18_Witness ==
    /\ Filtered
    /\ Len(panel) >= 2
    /\ ~currencies_df.data[panel[1].date]["EUR"].nan
    /\ currencies_df.data[panel[2].date]["EUR"].nan
    /\ ~currencies_df.data[panel[2].date]["JPY"].nan
    /\ usd_strength[2] = [num |-> -4, den |-> 2]

----------------------------------------------------------------------------
(* Claims about main when an input is missing (Spec) *)

\* No currency table or no event table has been loaded: the rate file is
\* missing or holds no row, or no event file gave a row.
MissingUpstream ==
    \/ df_currency = NoExcelFile
    \/ FrameEmpty(df_currency)
    \/ df_events = <<>>

\* Claim C19: a missing upstream collection (no currency table or no
\* event table loaded) is a fatal failure surfaced as an error to the
\* caller; the analysis never finishes normally in that case as if there
\* were simply no anomalies.
C19_MissingUpstreamIsFatal ==
    (pc # "main" /\ MissingUpstream) => (pc = "raised" /\ error # "none")

----------------------------------------------------------------------------
(* Claims about the independence of the columns (SpecDetect) *)

\* The rate table with every column but col holding the series other.
WithOthers(df, col, other) ==
    [index |-> df.index,
     date |-> df.date,
     data |-> [c \in Range(Columns) |-> IF c = col THEN df.data[c] ELSE other]]

\* The anomaly rows of a column, in the order they stand in results.
AnomaliesOf(col) == SelectSeq(results, LAMBDA r : r.CURRENCY = col)

\* The part of C21 that one run shows: the anomaly rows of a processed
\* column are those computed from a table in which the other columns hold
\* any other series, whether the column is processed first or after them.
\* (The claim as a whole compares runs on different tables and under other
\* processing orders; main produces no attribution row for any currency,
\* see C4 and C9.)
AnomaliesFromOwnSeries ==
    \A col \in Processed :
        \A other \in SmallColumns :
            AnomaliesOf(col) = ColumnRows(WithOthers(df_currency, col, other), col)

----------------------------------------------------------------------------
(* Claims about prepare_model_table (SpecModelTable) *)

\* A model table has been built for the currency.
Built == mt_pc = "next" /\ model_tables.built

\* The last date present both in the events and in the rate table.
LastJoined ==
    CHOOSE d \in daily \cap DOMAIN cur_prices :
        \A e \in daily \cap DOMAIN cur_prices : e <= d

\* The last joined row is never in the model table.
C22_LastRowDropped ==
    Built => \A i \in DOMAIN model_tables.rows : model_tables.rows[i].Date # LastJoined

\* Claim C22: in every model table built by prepare_model_table, the
\* target of the row with date t is the currency's percentage change on
\* calendar day t + 1, and the last row, which has no next-day value, is
\* dropped.
C22_TargetIsNextDay ==
    Built =>
        /\ \A i \in DOMAIN model_tables.rows :
              /\ model_tables.rows[i].Date + 1 \in DOMAIN cur_prices
              /\ model_tables.rows[i].target_next_pctchg
                    = cur_prices[model_tables.rows[i].Date + 1]
        /\ C22_LastRowDropped

----------------------------------------------------------------------------
(* Claims about process_year (SpecYear, SpecYearFair) *)

\* Every URL of the month has been tried in this run.
AllTried(m) == \A u \in Urls : attempts_made[m][u] >= 1

\* No URL of the month has been tried in this run.
Untouched(m) == \A u \in Urls : attempts_made[m][u] = 0

\* No URL is tried more than max_retries times or after its success, and
\* none puts more than one frame into the month's batch.
RetriesBounded ==
    /\ \A m \in Range(SortedMonths) : \A u \in Urls :
          /\ attempts_made[m][u] <= max_retries
          /\ frames_from[m][u] <= 1
    /\ downloads_after = 0

\* At the end of a run every month was either there already and left
\* alone, or had each of its URLs tried.
AllMonthsHandled ==
    py_pc = "done" =>
        \A m \in Range(SortedMonths) :
            \/ AllTried(m)
            \/ Untouched(m) /\ monthly_file[m].exists

\* The retry loop is bounded, and a run that comes to its end has handled
\* every month.
C23_RetriesBounded == RetriesBounded /\ AllMonthsHandled

\* Claim C23: in process_year every zip URL is downloaded at most
\* max_retries times and never again after its first success, it puts at
\* most one frame into the month's batch, and a URL that fails every
\* attempt is skipped while the other URLs and months are still processed:
\* every run reaches the end of the year's file list.
C23_RetryLoopBoundedAndCompletes ==
    /\ []C23_RetriesBounded
    /\ [](py_pc \in {"month", "url"} => <>(py_pc = "done"))

\* No step changes a monthly file that exists.
ExistingFileKept ==
    \A m \in Months :
        monthly_file[m].exists => monthly_file'[m] = monthly_file[m]

\* Downloads go on only for a month without a file; process_year has written
\* a month's file at most once, from at least one processed zip.
WrittenOnceFromZips ==
    /\ py_pc = "url" => ~monthly_file[SortedMonths[py_month]].exists
    /\ \A m \in Months :
          /\ file_writes[m].n <= 1
          /\ file_writes[m].n = 1 => file_writes[m].zips >= 1

\* Claim C24: process_year never modifies a monthly file that exists when
\* its month is reached (no download, no write), so over any number of runs
\* a month's file is written at most once, and only in a run in which at
\* least one of its zips was processed.
C24_ExistingMonthUntouched ==
    /\ []WrittenOnceFromZips
    /\ [][ExistingFileKept]_vars

\* A later run has ended: month 01, written by an earlier run, and month
\* 02, there from the start, were both skipped without a download.
C24_Witness ==
    /\ py_pc = "done"
    /\ file_writes["01"].n = 1
    /\ file_writes["02"].n = 0
    /\ monthly_file["02"].exists
    /\ Untouched("01")
    /\ Untouched("02")

====
